---- MODULE Spec2Model ----
(***************************************************************************)
(* InvoiceService (src/src/invoice_service.py): validation and pricing of  *)
(* an invoice, as a state machine of calls to compute_total on one service *)
(* instance.                                                               *)
(*                                                                         *)
(* Representation.                                                         *)
(*  - Money is a float in the source.  Here it is an exact integer count   *)
(*    of 1/Scale currency units, and a rate is an integer number of        *)
(*    percent; every product the pipeline forms on the inputs below is     *)
(*    exact.  Floating rounding, NaN and infinities are outside the model. *)
(*  - A coupon string is a sequence of symbols, each either the blank " "  *)
(*    or a word without blanks; strip() removes leading and trailing       *)
(*    blanks of that sequence.                                             *)
(*  - A message is a sequence of text fragments (an f-string is the        *)
(*    sequence of its literal and its field); "; ".join concatenates the   *)
(*    messages with the fragment "; " between them.                        *)
(*  - None is [isNone |-> TRUE] for an invoice and [some |-> FALSE] for an *)
(*    Optional field.                                                      *)
(***************************************************************************)
EXTENDS Integers, Sequences, FiniteSets, TLC

\* ---------------------------------------------------------------- bounds
\* Longest items list of an input invoice.
MaxItems == 2
\* Calls one caller makes in a row on the same instance (SpecSeq).
MaxCalls == 3
\* Callers sharing the instance (SpecConc).
NumCallers == 2

\* ---------------------------------------------------------- money, rates
\* Money unit: 1/Scale of a currency unit (float fields of the source).  Every
\* input price is a multiple of 10 currency units, so three decimals are exact.
Scale == 1000

Money(units) == units * Scale

\* amount * rate, the rate in percent.
Pct(amount, percent) == (amount * percent) \div 100

\* Python's max(a, b).
Max(a, b) == IF b > a THEN b ELSE a

\* ---------------------------------------------------------------- strings
Blank == " "

RECURSIVE LStrip(_)
LStrip(s) == IF s # <<>> /\ Head(s) = Blank THEN LStrip(Tail(s)) ELSE s

RECURSIVE RStrip(_)
RStrip(s) == IF s # <<>> /\ s[Len(s)] = Blank THEN RStrip(SubSeq(s, 1, Len(s) - 1)) ELSE s

\* Mutant: lstrip() for strip().
StripLeftOnly(s) == LStrip(s)

\* str.strip()
Strip(s) == RStrip(LStrip(s))

\* "; ".join(problems)
RECURSIVE Join(_)
Join(msgs) == IF msgs = <<>> THEN <<>> ELSE IF Len(msgs) = 1 THEN msgs[1] ELSE msgs[1] \o <<"; ">> \o Join(Tail(msgs))

\* ----------------------------------------------------------- service data
VALID_CATEGORIES == {"book", "food", "electronics", "other"}

\* self._coupon_rate after __init__, rates in percent.
CouponRateTable == [code \in {<<"WELCOME10">>, <<"VIP20">>, <<"STUDENT5">>} |-> IF code = <<"WELCOME10">> THEN 10 ELSE IF code = <<"VIP20">> THEN 20 ELSE 5]

\* self._tax_rates after __init__, rates in percent.
TaxRateTable == [country \in {"TH", "JP", "US"} |-> IF country = "TH" THEN 7 ELSE IF country = "JP" THEN 10 ELSE 8]

\* dict.get(key, default)
Get(table, key, default) == IF key \in DOMAIN table THEN table[key] ELSE default

\* -------------------------------------------------------------- _validate
\* Mutant: the four tests of the loop body chained with elif.
ItemProblemsFirstOnly(it) == IF it.sku = "" THEN << <<"Item sku is missing">> >> ELSE IF it.qty <= 0 THEN << <<"Invalid qty for ", it.sku>> >> ELSE IF it.unit_price < 0 THEN << <<"Invalid price for ", it.sku>> >> ELSE IF it.category \notin VALID_CATEGORIES THEN << <<"Unknown category for ", it.sku>> >> ELSE <<>>

\* The problems one item adds, in the order of the four tests of the loop body.
ItemProblems(it) == (IF it.sku = "" THEN << <<"Item sku is missing">> >> ELSE <<>>) \o (IF it.qty <= 0 THEN << <<"Invalid qty for ", it.sku>> >> ELSE <<>>) \o (IF it.unit_price < 0 THEN << <<"Invalid price for ", it.sku>> >> ELSE <<>>) \o (IF it.category \notin VALID_CATEGORIES THEN << <<"Unknown category for ", it.sku>> >> ELSE <<>>)

\* for it in items: ... (the loop, front to back)
RECURSIVE LoopProblems(_)
LoopProblems(items) == IF items = <<>> THEN <<>> ELSE ItemProblems(Head(items)) \o LoopProblems(Tail(items))

\* inv.items or []
ItemsOrEmpty(inv) == IF inv.items.some THEN inv.items.val ELSE <<>>

_validate(inv) == IF inv.isNone THEN << <<"Invoice is missing">> >> ELSE (IF inv.invoice_id = "" THEN << <<"Missing invoice_id">> >> ELSE <<>>) \o (IF inv.customer_id = "" THEN << <<"Missing customer_id">> >> ELSE <<>>) \o (IF ItemsOrEmpty(inv) = <<>> THEN << <<"Invoice must contain items">> >> ELSE <<>>) \o LoopProblems(ItemsOrEmpty(inv))

\* Mutant: if len(problems) > 1:
FailsOnSeveral(problems) == Len(problems) > 1

\* if problems:
Fails(problems) == problems # <<>>

\* ---------------------------------------------- _calc_subtotal_and_fragile
RECURSIVE SubtotalOf(_)
SubtotalOf(items) == IF items = <<>> THEN 0 ELSE SubtotalOf(SubSeq(items, 1, Len(items) - 1)) + items[Len(items)].unit_price * items[Len(items)].qty

RECURSIVE FragileFeeOf(_)
FragileFeeOf(items) == IF items = <<>> THEN 0 ELSE FragileFeeOf(SubSeq(items, 1, Len(items) - 1)) + (IF items[Len(items)].fragile THEN Money(5) * items[Len(items)].qty ELSE 0)

\* ---------------------------------------------------------- _calc_shipping
\* Mutant: <= for < in every threshold.
ShippingInclusive(subtotal, country) == IF country = "US" THEN (IF subtotal <= Money(100) THEN Money(15) ELSE IF subtotal <= Money(300) THEN Money(8) ELSE 0) ELSE IF country = "TH" THEN (IF subtotal <= Money(500) THEN Money(60) ELSE 0) ELSE IF country = "JP" THEN (IF subtotal <= Money(4000) THEN Money(600) ELSE 0) ELSE (IF subtotal <= Money(200) THEN Money(25) ELSE 0)

_calc_shipping(subtotal, country) == IF country = "US" THEN (IF subtotal < Money(100) THEN Money(15) ELSE IF subtotal < Money(300) THEN Money(8) ELSE 0) ELSE IF country = "TH" THEN (IF subtotal < Money(500) THEN Money(60) ELSE 0) ELSE IF country = "JP" THEN (IF subtotal < Money(4000) THEN Money(600) ELSE 0) ELSE (IF subtotal < Money(200) THEN Money(25) ELSE 0)

\* ----------------------------------------------------- _membership_discount
\* Mutant: the flat discount without its subtotal > 3000 condition.
MembershipFlatAlways(subtotal, membership) == IF membership = "gold" THEN Pct(subtotal, 3) ELSE IF membership = "platinum" THEN Pct(subtotal, 5) ELSE Money(20)

_membership_discount(subtotal, membership) == IF membership = "gold" THEN Pct(subtotal, 3) ELSE IF membership = "platinum" THEN Pct(subtotal, 5) ELSE IF subtotal > Money(3000) THEN Money(20) ELSE 0

\* --------------------------------------------------------- _coupon_discount
\* not coupon or coupon.strip() == ""
NoCoupon(coupon) == ~coupon.some \/ coupon.val = <<>> \/ Strip(coupon.val) = <<>>

\* The value returned, given the instance's rate table.
CouponAmount(table, subtotal, coupon) == IF NoCoupon(coupon) THEN 0 ELSE IF Strip(coupon.val) \notin DOMAIN table THEN 0 ELSE Pct(subtotal, table[Strip(coupon.val)])

\* The warnings list after the call (the list is appended to in place).
CouponWarnings(table, coupon, warns) == IF NoCoupon(coupon) THEN warns ELSE IF Strip(coupon.val) \notin DOMAIN table THEN Append(warns, "Unknown coupon") ELSE warns

\* -------------------------------------------------------------- _tax_amount
\* Mutant: self._tax_rates.get(country, 0.0)
TaxNoDefault(table, taxable, country) == Pct(taxable, Get(table, country, 0))

_tax_amount(table, taxable, country) == Pct(taxable, Get(table, country, 5))

\* taxable = max(subtotal - discount, 0.0)
TaxableOf(subtotal, discount) == Max(subtotal - discount, 0)

\* Mutant: subtotal left out of the sum, and no clamp.
TotalOfCharges(n) == n.shipping + n.fragile_fee + n.tax - n.discount

\* total = subtotal + shipping + fragile_fee + tax - discount; total = max(total, 0.0)
TotalOf(n) == Max(n.subtotal + n.shipping + n.fragile_fee + n.tax - n.discount, 0)

\* Mutant: subtotal >= 10000
SuggestsUpgradeInclusive(subtotal, membership) == subtotal >= Money(10000) /\ membership \notin {"gold", "platinum"}

\* subtotal > 10000 and inv.membership not in ("gold", "platinum")
SuggestsUpgrade(subtotal, membership) == subtotal > Money(10000) /\ membership \notin {"gold", "platinum"}

\* Mutant: self._coupon_rate.setdefault(code, 0.0) for .get(code)
CouponTableRemembers(table, coupon) == IF NoCoupon(coupon) THEN table ELSE [code \in DOMAIN table \cup {Strip(coupon.val)} |-> IF code \in DOMAIN table THEN table[code] ELSE 0]

\* Mutant: self._coupon_rate.pop(code, None) for .get(code)
CouponTableForgets(table, coupon) == IF NoCoupon(coupon) THEN table ELSE [code \in DOMAIN table \ {Strip(coupon.val)} |-> table[code]]

\* The instance's coupon table after _coupon_discount: the lookup is a read.
CouponTableAfter(table, coupon) == table

\* ------------------------------------------------------------ compute_total
\* compute_total(inv) run from its first line to its last on an instance whose
\* tables are the given ones: what it returns or raises.
compute_total(coupons, taxes, i) == IF Fails(_validate(i)) THEN [kind |-> "raise", message |-> Join(_validate(i))] ELSE
  LET subtotal == SubtotalOf(i.items.val)
      fragile_fee == FragileFeeOf(i.items.val)
      shipping == _calc_shipping(subtotal, i.country)
      discount == _membership_discount(subtotal, i.membership) + CouponAmount(coupons, subtotal, i.coupon)
      w1 == CouponWarnings(coupons, i.coupon, <<>>)
      tax == _tax_amount(taxes, TaxableOf(subtotal, discount), i.country)
      total == TotalOf([subtotal |-> subtotal, shipping |-> shipping, fragile_fee |-> fragile_fee, tax |-> tax, discount |-> discount])
  IN [kind |-> "return", total |-> total, warnings |-> IF SuggestsUpgrade(subtotal, i.membership) THEN Append(w1, "Consider membership upgrade") ELSE w1]

\* ------------------------------------------------------------------ inputs
NoneInvoice == [isNone |-> TRUE]

None == [some |-> FALSE]

Some(v) == [some |-> TRUE, val |-> v]

LineItem(sku, category, unit_price, qty, fragile) == [sku |-> sku, category |-> category, unit_price |-> unit_price, qty |-> qty, fragile |-> fragile]

Invoice(invoice_id, customer_id, country, membership, coupon, items) == [isNone |-> FALSE, invoice_id |-> invoice_id, customer_id |-> customer_id, country |-> country, membership |-> membership, coupon |-> coupon, items |-> items]

\* Sequences over S of length lo..hi.
SeqsOf(S, lo, hi) == UNION {[1..n -> S] : n \in lo..hi}

Countries == {"US", "TH", "JP", "DE"}

Memberships == {"gold", "platinum", "standard", "silver"}

Coupons == {None, Some(<<>>), Some(<<Blank>>), Some(<<"VIP20">>), Some(<<Blank, "VIP20", Blank>>), Some(<<"WELCOME10">>), Some(<<"STUDENT5", Blank>>), Some(<<"BOGUS50">>)}

\* Line items that pass validation; alone they give the subtotals 0, 50, 100,
\* 200, 500, 1000, 3000, 10000 and 12000, together the ones between (300 and
\* 4000 among them).
PricedItems == {LineItem("A", "book", Money(0), 1, FALSE), LineItem("A", "food", Money(50), 1, TRUE), LineItem("A", "other", Money(100), 1, FALSE), LineItem("A", "book", Money(100), 2, TRUE), LineItem("A", "electronics", Money(250), 2, FALSE), LineItem("A", "electronics", Money(1000), 1, FALSE), LineItem("A", "other", Money(1000), 3, TRUE), LineItem("A", "electronics", Money(5000), 2, FALSE), LineItem("A", "electronics", Money(12000), 1, TRUE)}

\* Invoices that pass validation, over every country, membership and coupon.
PricingInputs == {Invoice("INV", "CUST", co, m, cp, Some(its)) : co \in Countries, m \in Memberships, cp \in Coupons, its \in SeqsOf(PricedItems, 1, MaxItems)}

\* Line items with every combination of the four per-item faults, and a
\* faultless one of each category.
CheckedItems == {LineItem(sku, cat, Money(p), q, FALSE) : sku \in {"", "A"}, cat \in {"book", "toy"}, p \in {-1, 10}, q \in {0, 1}} \cup {LineItem("B", cat, Money(0), 1, TRUE) : cat \in VALID_CATEGORIES} \cup {LineItem("B", "food", Money(10), -1, FALSE)}

\* Invoices with every combination of the validation faults.
ValidationInputs == {NoneInvoice} \cup {Invoice(id, cu, "US", "standard", None, its) : id \in {"", "INV"}, cu \in {"", "CUST"}, its \in {None} \cup {Some(s) : s \in SeqsOf(CheckedItems, 0, MaxItems)}}

Inputs == PricingInputs \cup ValidationInputs

\* A few invoices whose outcomes differ in every part: for runs of several calls.
FewInputs == {NoneInvoice, Invoice("", "", "US", "standard", None, Some(<<>>)), Invoice("INV", "CUST", "US", "standard", Some(<<"VIP20">>), Some(<<LineItem("A", "electronics", Money(1000), 1, FALSE)>>)), Invoice("INV", "CUST", "US", "standard", Some(<<"BOGUS50">>), Some(<<LineItem("A", "electronics", Money(1000), 1, FALSE)>>)), Invoice("INV", "CUST", "JP", "silver", Some(<<Blank, "BOGUS50">>), Some(<<LineItem("A", "electronics", Money(12000), 1, TRUE)>>)), Invoice("INV", "CUST", "TH", "gold", Some(<<"WELCOME10", Blank>>), Some(<<LineItem("A", "electronics", Money(12000), 1, FALSE), LineItem("B", "book", Money(50), 1, TRUE)>>))}

\* ------------------------------------------------------------------- state
Callers == 1..NumCallers

VARIABLES coupon_rate, tax_rates, pc, inv, warnings, problems, num, outcome, calls, log

vars == <<coupon_rate, tax_rates, pc, inv, warnings, problems, num, outcome, calls, log>>

\* A call frame with no local assigned yet.
NoLocals == [name \in {} |-> 0]

\* name = value in a call frame.
Assign(frame, name, value) == [x \in DOMAIN frame \cup {name} |-> IF x = name THEN value ELSE frame[x]]

NoOutcome == [kind |-> "none"]

\* __init__, and no call made yet.
Init == /\ coupon_rate = CouponRateTable
        /\ tax_rates = TaxRateTable
        /\ pc = [c \in Callers |-> "idle"]
        /\ inv = [c \in Callers |-> NoneInvoice]
        /\ warnings = [c \in Callers |-> <<>>]
        /\ problems = [c \in Callers |-> <<>>]
        /\ num = [c \in Callers |-> NoLocals]
        /\ outcome = [c \in Callers |-> NoOutcome]
        /\ calls = [c \in Callers |-> 0]
        /\ log = <<>>

\* Caller c calls compute_total(i) for some i of the given inputs: warnings = [].
Call(c, inputs, limit) == /\ pc[c] \in {"idle", "done", "raised"}
                          /\ calls[c] < limit
                          /\ \E i \in inputs : inv' = [inv EXCEPT ![c] = i]
                          /\ calls' = [calls EXCEPT ![c] = @ + 1]
                          /\ pc' = [pc EXCEPT ![c] = "validate"]
                          /\ warnings' = [warnings EXCEPT ![c] = <<>>]
                          /\ problems' = [problems EXCEPT ![c] = <<>>]
                          /\ num' = [num EXCEPT ![c] = NoLocals]
                          /\ outcome' = [outcome EXCEPT ![c] = NoOutcome]
                          /\ UNCHANGED <<coupon_rate, tax_rates, log>>

\* problems = self._validate(inv); if problems: raise ValueError("; ".join(problems))
ValidateFail(c) == /\ pc[c] = "validate"
                   /\ problems' = [problems EXCEPT ![c] = _validate(inv[c])]
                   /\ Fails(problems'[c])
                   /\ pc' = [pc EXCEPT ![c] = "raised"]
                   /\ outcome' = [outcome EXCEPT ![c] = [kind |-> "raise", message |-> Join(problems'[c])]]
                   /\ log' = Append(log, [inv |-> inv[c], outcome |-> outcome'[c]])
                   /\ UNCHANGED <<coupon_rate, tax_rates, inv, warnings, num, calls>>

\* problems = self._validate(inv); if problems: (not taken)
ValidateOk(c) == /\ pc[c] = "validate"
                 /\ problems' = [problems EXCEPT ![c] = _validate(inv[c])]
                 /\ ~Fails(problems'[c])
                 /\ pc' = [pc EXCEPT ![c] = "subtotal"]
                 /\ UNCHANGED <<coupon_rate, tax_rates, inv, warnings, num, outcome, calls, log>>

\* subtotal, fragile_fee = self._calc_subtotal_and_fragile(inv.items)
Subtotal(c) == /\ pc[c] = "subtotal"
               /\ num' = [num EXCEPT ![c] = Assign(Assign(@, "subtotal", SubtotalOf(inv[c].items.val)), "fragile_fee", FragileFeeOf(inv[c].items.val))]
               /\ pc' = [pc EXCEPT ![c] = "shipping"]
               /\ UNCHANGED <<coupon_rate, tax_rates, inv, warnings, problems, outcome, calls, log>>

\* shipping = self._calc_shipping(subtotal, inv.country)
Shipping(c) == /\ pc[c] = "shipping"
               /\ num' = [num EXCEPT ![c] = Assign(@, "shipping", _calc_shipping(@.subtotal, inv[c].country))]
               /\ pc' = [pc EXCEPT ![c] = "membership"]
               /\ UNCHANGED <<coupon_rate, tax_rates, inv, warnings, problems, outcome, calls, log>>

\* discount = self._membership_discount(subtotal, inv.membership)
Membership(c) == /\ pc[c] = "membership"
                 /\ num' = [num EXCEPT ![c] = Assign(@, "discount", _membership_discount(@.subtotal, inv[c].membership))]
                 /\ pc' = [pc EXCEPT ![c] = "coupon"]
                 /\ UNCHANGED <<coupon_rate, tax_rates, inv, warnings, problems, outcome, calls, log>>

\* discount += self._coupon_discount(subtotal, inv.coupon, warnings)
Coupon(c) == /\ pc[c] = "coupon"
             /\ num' = [num EXCEPT ![c] = Assign(@, "discount", @.discount + CouponAmount(coupon_rate, @.subtotal, inv[c].coupon))]
             /\ warnings' = [warnings EXCEPT ![c] = CouponWarnings(coupon_rate, inv[c].coupon, @)]
             /\ coupon_rate' = CouponTableAfter(coupon_rate, inv[c].coupon)
             /\ pc' = [pc EXCEPT ![c] = "tax"]
             /\ UNCHANGED <<tax_rates, inv, problems, outcome, calls, log>>

\* taxable = max(subtotal - discount, 0.0); tax = self._tax_amount(taxable, inv.country)
Tax(c) == /\ pc[c] = "tax"
          /\ LET taxable == TaxableOf(num[c].subtotal, num[c].discount)
             IN num' = [num EXCEPT ![c] = Assign(Assign(@, "taxable", taxable), "tax", _tax_amount(tax_rates, taxable, inv[c].country))]
          /\ pc' = [pc EXCEPT ![c] = "total"]
          /\ UNCHANGED <<coupon_rate, tax_rates, inv, warnings, problems, outcome, calls, log>>

\* total = subtotal + shipping + fragile_fee + tax - discount; total = max(total, 0.0)
Total(c) == /\ pc[c] = "total"
            /\ num' = [num EXCEPT ![c] = Assign(@, "total", TotalOf(@))]
            /\ pc' = [pc EXCEPT ![c] = "upgrade"]
            /\ UNCHANGED <<coupon_rate, tax_rates, inv, warnings, problems, outcome, calls, log>>

\* if subtotal > 10000 and ...: warnings.append(...); return total, warnings
Upgrade(c) == /\ pc[c] = "upgrade"
              /\ warnings' = [warnings EXCEPT ![c] = IF SuggestsUpgrade(num[c].subtotal, inv[c].membership) THEN Append(@, "Consider membership upgrade") ELSE @]
              /\ outcome' = [outcome EXCEPT ![c] = [kind |-> "return", total |-> num[c].total, warnings |-> warnings'[c]]]
              /\ log' = Append(log, [inv |-> inv[c], outcome |-> outcome'[c]])
              /\ pc' = [pc EXCEPT ![c] = "done"]
              /\ UNCHANGED <<coupon_rate, tax_rates, inv, problems, num, calls>>

Step(c) == ValidateFail(c) \/ ValidateOk(c) \/ Subtotal(c) \/ Shipping(c) \/ Membership(c) \/ Coupon(c) \/ Tax(c) \/ Total(c) \/ Upgrade(c)

\* One call, over the whole input set.
Next == Call(1, Inputs, 1) \/ Step(1)

Spec == Init /\ [][Next]_vars

\* One caller, several calls in a row on the same instance.
NextSeq == Call(1, FewInputs, MaxCalls) \/ Step(1)

SpecSeq == Init /\ [][NextSeq]_vars

\* Several callers, one call each, their steps interleaved in any order.
NextConc == \E c \in Callers : Call(c, FewInputs, 1) \/ Step(c)

SpecConc == Init /\ [][NextConc]_vars

\* ================================================================== claims
\* What the claims state, written from their wording and independently of the
\* operators above.

Range(seq) == {seq[k] : k \in 1..Len(seq)}

Least(S) == CHOOSE x \in S : \A y \in S : x <= y

Greatest(S) == CHOOSE x \in S : \A y \in S : y <= x

\* An invoice the pipeline has taken a decision on.
Validated(c) == pc[c] \notin {"idle", "validate"}

\* The k-th validation rule of a present invoice: rules 1..3 are those of the
\* invoice, rule 3 + 4 (j - 1) + r is rule r of item j.
ExpRuleBroken(i, k) == LET its == IF i.items.some THEN i.items.val ELSE <<>>
                           it == its[((k - 4) \div 4) + 1]
                           r == ((k - 4) % 4) + 1
                       IN IF k = 1 THEN i.invoice_id = "" ELSE IF k = 2 THEN i.customer_id = "" ELSE IF k = 3 THEN Len(its) = 0 ELSE IF r = 1 THEN it.sku = "" ELSE IF r = 2 THEN it.qty <= 0 ELSE IF r = 3 THEN it.unit_price < 0 ELSE it.category \notin {"book", "food", "electronics", "other"}

ExpRuleMessage(i, k) == LET it == i.items.val[((k - 4) \div 4) + 1]
                            r == ((k - 4) % 4) + 1
                        IN IF k = 1 THEN <<"Missing invoice_id">> ELSE IF k = 2 THEN <<"Missing customer_id">> ELSE IF k = 3 THEN <<"Invoice must contain items">> ELSE IF r = 1 THEN <<"Item sku is missing">> ELSE IF r = 2 THEN <<"Invalid qty for ", it.sku>> ELSE IF r = 3 THEN <<"Invalid price for ", it.sku>> ELSE <<"Unknown category for ", it.sku>>

ExpRuleCount(i) == 3 + 4 * (IF i.items.some THEN Len(i.items.val) ELSE 0)

\* The messages of the broken rules, in rule order.
ExpProblems(i) == IF i.isNone THEN << <<"Invoice is missing">> >> ELSE LET broken == SelectSeq([k \in 1..ExpRuleCount(i) |-> k], LAMBDA k : ExpRuleBroken(i, k)) IN [n \in 1..Len(broken) |-> ExpRuleMessage(i, broken[n])]

ExpNoRuleBroken(i) == ~i.isNone /\ \A k \in 1..ExpRuleCount(i) : ~ExpRuleBroken(i, k)

\* The messages with "; " between each two, built from the back.
RECURSIVE ExpJoined(_)
ExpJoined(msgs) == IF Len(msgs) = 0 THEN <<>> ELSE IF Len(msgs) = 1 THEN msgs[1] ELSE ExpJoined(SubSeq(msgs, 1, Len(msgs) - 1)) \o <<"; ">> \o msgs[Len(msgs)]

RECURSIVE ExpSubtotal(_)
ExpSubtotal(items) == IF items = <<>> THEN 0 ELSE Head(items).unit_price * Head(items).qty + ExpSubtotal(Tail(items))

RECURSIVE ExpFragileFee(_)
ExpFragileFee(items) == IF items = <<>> THEN 0 ELSE (IF Head(items).fragile THEN 5 * Scale * Head(items).qty ELSE 0) + ExpFragileFee(Tail(items))

ExpShipping(subtotal, country) == CASE country = "US" /\ subtotal < 100 * Scale -> 15 * Scale
                                    [] country = "US" /\ subtotal >= 100 * Scale /\ subtotal < 300 * Scale -> 8 * Scale
                                    [] country = "US" /\ subtotal >= 300 * Scale -> 0
                                    [] country = "TH" -> IF subtotal < 500 * Scale THEN 60 * Scale ELSE 0
                                    [] country = "JP" -> IF subtotal < 4000 * Scale THEN 600 * Scale ELSE 0
                                    [] OTHER -> IF subtotal < 200 * Scale THEN 25 * Scale ELSE 0

ExpMembershipDiscount(subtotal, membership) == CASE membership = "gold" -> (subtotal * 3) \div 100
                                                 [] membership = "platinum" -> (subtotal * 5) \div 100
                                                 [] OTHER -> IF subtotal > 3000 * Scale THEN 20 * Scale ELSE 0

\* The coupon with surrounding blanks removed: from its first to its last non-blank.
ExpTrimmed(text) == LET solid == {k \in 1..Len(text) : text[k] # " "} IN IF solid = {} THEN <<>> ELSE SubSeq(text, Least(solid), Greatest(solid))

ExpCouponGiven(coupon) == coupon.some /\ ExpTrimmed(coupon.val) # <<>>

ExpCouponKnown(coupon) == ExpCouponGiven(coupon) /\ ExpTrimmed(coupon.val) \in {<<"WELCOME10">>, <<"VIP20">>, <<"STUDENT5">>}

ExpCouponDiscount(subtotal, coupon) == CASE ExpCouponKnown(coupon) /\ ExpTrimmed(coupon.val) = <<"WELCOME10">> -> (subtotal * 10) \div 100
                                         [] ExpCouponKnown(coupon) /\ ExpTrimmed(coupon.val) = <<"VIP20">> -> (subtotal * 20) \div 100
                                         [] ExpCouponKnown(coupon) /\ ExpTrimmed(coupon.val) = <<"STUDENT5">> -> (subtotal * 5) \div 100
                                         [] OTHER -> 0

ExpCouponWarnings(coupon) == IF ExpCouponGiven(coupon) /\ ~ExpCouponKnown(coupon) THEN <<"Unknown coupon">> ELSE <<>>

ExpTaxRate(country) == CASE country = "TH" -> 7 [] country = "JP" -> 10 [] country = "US" -> 8 [] OTHER -> 5

ExpDiscount(i) == ExpMembershipDiscount(ExpSubtotal(i.items.val), i.membership) + ExpCouponDiscount(ExpSubtotal(i.items.val), i.coupon)

ExpTaxable(i) == IF ExpSubtotal(i.items.val) - ExpDiscount(i) > 0 THEN ExpSubtotal(i.items.val) - ExpDiscount(i) ELSE 0

ExpTax(i) == (ExpTaxable(i) * ExpTaxRate(i.country)) \div 100

ExpUnclampedTotal(i) == ExpSubtotal(i.items.val) + ExpShipping(ExpSubtotal(i.items.val), i.country) + ExpFragileFee(i.items.val) + ExpTax(i) - ExpDiscount(i)

ExpTotal(i) == IF ExpUnclampedTotal(i) > 0 THEN ExpUnclampedTotal(i) ELSE 0

ExpUpgrade(i) == ExpSubtotal(i.items.val) > 10000 * Scale /\ i.membership # "gold" /\ i.membership # "platinum"

\* Subtotal 1000, membership standard, country US, with the given coupon.
ExampleInvoice(code) == Invoice("INV", "CUST", "US", "standard", Some(<<code>>), Some(<<LineItem("A", "electronics", 1000 * Scale, 1, FALSE)>>))

\* ---------------------------------------------------------------------- C1
\* C1: whenever _validate returns problems, the call ends in one error whose
\* message is those problems joined by "; " in order, no total or warning is
\* returned, and no subtotal, shipping, discount, tax or warning step has run.
C1_InvalidInvoiceRaises ==
  \A c \in Callers : (Validated(c) /\ _validate(inv[c]) # <<>>) =>
     ( /\ pc[c] = "raised"
       /\ outcome[c] = [kind |-> "raise", message |-> ExpJoined(_validate(inv[c]))]
       /\ num[c] = NoLocals
       /\ warnings[c] = <<>> )

\* A call that failed with three problems or more.
C1_Witness ==
  \E c \in Callers : pc[c] = "raised" /\ Len(problems[c]) >= 3 /\ outcome[c].kind = "raise"

\* ---------------------------------------------------------------------- C2
\* C2: the list _validate returns is the messages of all broken rules in rule
\* order (invoice_id, customer_id, items, then per item sku, qty, price,
\* category), the single "Invoice is missing" for an absent invoice, and it is
\* empty exactly when no rule is broken.
C2_ValidateReportsEveryProblem ==
  \A c \in Callers : Validated(c) =>
     ( /\ problems[c] = ExpProblems(inv[c])
       /\ ((problems[c] = <<>>) <=> ExpNoRuleBroken(inv[c]))
       /\ (inv[c].isNone => problems[c] = << <<"Invoice is missing">> >>)
       /\ ((~inv[c].isNone /\ inv[c].invoice_id = "" /\ inv[c].customer_id = "" /\ (~inv[c].items.some \/ inv[c].items.val = <<>>))
             => problems[c] = << <<"Missing invoice_id">>, <<"Missing customer_id">>, <<"Invoice must contain items">> >>) )

\* Both ids missing and each of two items breaking two rules or more.
C2_Witness ==
  \E c \in Callers : pc[c] = "raised" /\ Len(problems[c]) >= 6 /\ problems[c][1] = <<"Missing invoice_id">> /\ problems[c][2] = <<"Missing customer_id">>

C4_TotalFormula ==
  \A c \in Callers : pc[c] = "done" =>
     ( /\ outcome[c].kind = "return"
       /\ outcome[c].total = ExpTotal(inv[c])
       /\ num[c].subtotal = ExpSubtotal(inv[c].items.val)
       /\ num[c].fragile_fee = ExpFragileFee(inv[c].items.val)
       /\ num[c].discount = ExpDiscount(inv[c])
       /\ num[c].tax = ExpTax(inv[c])
       /\ (inv[c] = ExampleInvoice("VIP20") => outcome[c] = [kind |-> "return", total |-> 864 * Scale, warnings |-> <<>>]) )

\* The example call has returned.
C4_Witness ==
  \E c \in Callers : pc[c] = "done" /\ inv[c] = ExampleInvoice("VIP20") /\ outcome[c].total = 864 * Scale

\* ---------------------------------------------------------------------- C5
\* C5: shipping is the tier of (subtotal, country) with strict thresholds; a
\* subtotal equal to a threshold is in the cheaper tier (US 100 -> 8, 300 -> 0).
C5_ShippingTiers ==
  \A c \in Callers : "shipping" \in DOMAIN num[c] =>
     ( /\ num[c].shipping = ExpShipping(num[c].subtotal, inv[c].country)
       /\ ((inv[c].country = "US" /\ num[c].subtotal = 100 * Scale) => num[c].shipping = 8 * Scale)
       /\ ((inv[c].country = "US" /\ num[c].subtotal = 300 * Scale) => num[c].shipping = 0)
       /\ ((inv[c].country = "TH" /\ num[c].subtotal = 500 * Scale) => num[c].shipping = 0)
       /\ ((inv[c].country = "JP" /\ num[c].subtotal = 4000 * Scale) => num[c].shipping = 0)
       /\ ((inv[c].country = "DE" /\ num[c].subtotal = 200 * Scale) => num[c].shipping = 0) )

\* US with a subtotal of exactly 100 was charged 8.
C5_Witness ==
  \E c \in Callers : "shipping" \in DOMAIN num[c] /\ inv[c].country = "US" /\ num[c].subtotal = 100 * Scale /\ num[c].shipping = 8 * Scale

\* ---------------------------------------------------------------------- C6
\* C6: the coupon step adds 0 and no warning for an absent, empty or blank
\* coupon, subtotal * rate and no warning for a known trimmed code, 0 and one
\* "Unknown coupon" for an unknown one; an unknown coupon does not fail the
\* call (subtotal 1000, BOGUS50, standard, US returns 1080 with that warning).
C6_CouponDiscount ==
  \A c \in Callers :
     /\ (pc[c] \in {"tax", "total", "upgrade", "done"} => num[c].discount - ExpMembershipDiscount(num[c].subtotal, inv[c].membership) = ExpCouponDiscount(num[c].subtotal, inv[c].coupon))
     /\ (pc[c] \in {"tax", "total", "upgrade"} => warnings[c] = ExpCouponWarnings(inv[c].coupon))
     /\ (pc[c] = "done" => Cardinality({k \in 1..Len(outcome[c].warnings) : outcome[c].warnings[k] = "Unknown coupon"}) = Len(ExpCouponWarnings(inv[c].coupon)))
     /\ ((Validated(c) /\ ExpNoRuleBroken(inv[c])) => pc[c] # "raised")
     /\ ((pc[c] = "done" /\ inv[c] = ExampleInvoice("BOGUS50")) => outcome[c] = [kind |-> "return", total |-> 1080 * Scale, warnings |-> <<"Unknown coupon">>])

\* The call with the unknown coupon has returned its total and its warning.
C6_Witness ==
  \E c \in Callers : pc[c] = "done" /\ inv[c] = ExampleInvoice("BOGUS50") /\ outcome[c].warnings = <<"Unknown coupon">>

\* ---------------------------------------------------------------------- C7
\* C7: "Consider membership upgrade" is returned exactly when subtotal > 10000
\* and the membership is neither gold nor platinum; the total is the one
\* computed before it; "Unknown coupon" precedes it when both are returned.
C7_UpgradeWarning ==
  \A c \in Callers : pc[c] = "done" =>
     ( /\ (("Consider membership upgrade" \in Range(outcome[c].warnings)) <=> ExpUpgrade(inv[c]))
       /\ outcome[c].total = num[c].total
       /\ outcome[c].total = ExpTotal(inv[c])
       /\ outcome[c].warnings = ExpCouponWarnings(inv[c].coupon) \o (IF ExpUpgrade(inv[c]) THEN <<"Consider membership upgrade">> ELSE <<>>)
       /\ \A j, k \in 1..Len(outcome[c].warnings) : (outcome[c].warnings[j] = "Unknown coupon" /\ outcome[c].warnings[k] = "Consider membership upgrade") => j < k )

\* A call returned both warnings.
C7_Witness ==
  \E c \in Callers : pc[c] = "done" /\ outcome[c].warnings = <<"Unknown coupon", "Consider membership upgrade">>

\* ---------------------------------------------------------------------- C8
\* C8: on one instance, every two calls with the same invoice have the same
\* outcome whatever calls ran before or between them, and no call changes the
\* coupon-rate or tax-rate table.
C8_SameInvoiceSameOutcome ==
  /\ \A j, k \in 1..Len(log) : log[j].inv = log[k].inv => log[j].outcome = log[k].outcome
  /\ coupon_rate = CouponRateTable
  /\ tax_rates = TaxRateTable

\* The same invoice priced first and third, with warnings, a failing call between.
C8_Witness ==
  Len(log) >= 3 /\ log[1].inv = log[3].inv /\ log[1].outcome.kind = "return" /\ log[1].outcome.warnings # <<>> /\ log[2].outcome.kind = "raise" /\ log[3].outcome = log[1].outcome

\* ---------------------------------------------------------------------- C9
\* C9: with the calls of several callers interleaved step by step, each call
\* ends with the outcome compute_total has for its invoice when run alone on a
\* fresh instance.
C9_InterleavedAsAlone ==
  \A c \in Callers : pc[c] \in {"done", "raised"} => outcome[c] = compute_total(CouponRateTable, TaxRateTable, inv[c])

\* One call has returned with a warning while another is past its coupon step
\* with a different warnings list.
C9_Witness ==
  \E c, d \in Callers : c # d /\ pc[c] = "done" /\ outcome[c].warnings # <<>> /\ pc[d] \in {"tax", "total", "upgrade"} /\ warnings[d] # outcome[c].warnings /\ inv[c].coupon = inv[d].coupon

\* --------------------------------------------------------------------- C10
\* C10: for a valid invoice the discount never exceeds the subtotal, so the
\* taxable base is subtotal - discount and the total is the unclamped sum.
C10_ClampsNeverBind ==
  \A c \in Callers :
     /\ ("discount" \in DOMAIN num[c] => num[c].discount <= num[c].subtotal)
     /\ ("taxable" \in DOMAIN num[c] => num[c].taxable = num[c].subtotal - num[c].discount)
     /\ ("total" \in DOMAIN num[c] => num[c].total = num[c].subtotal + num[c].shipping + num[c].fragile_fee + num[c].tax - num[c].discount)

\* The largest discount the tables allow (platinum and VIP20) on a priced call.
C10_Witness ==
  \E c \in Callers : pc[c] = "done" /\ inv[c].membership = "platinum" /\ inv[c].coupon.some /\ ExpTrimmed(inv[c].coupon.val) = <<"VIP20">> /\ num[c].discount * 4 = num[c].subtotal /\ num[c].subtotal > 0

====
